---- MODULE Spec2Model ----
(***************************************************************************)
(* Smart-meter telemetry simulation: the gateway relay                     *)
(* (ami_meter/edge_simulation/gateway_relay.py), its statistics object and *)
(* the meter simulator (smart_meter_analytics/edge_simulation/simulator.py)*)
(*                                                                         *)
(* Spec       the relay: publish / publish_batch / flush / shutdown called *)
(*            directly ("api") or from run_with_simulator ("run") with the *)
(*            SIGINT/SIGTERM handler and the delivery-confirmation thread. *)
(* SpecStats  GatewayStats at the level of its lock and its loads/stores.  *)
(* SpecSim    the per-meter voltage-sag state machine of the simulator.    *)
(* SpecSeed   two runs of the simulator with the same seed.                *)
(* SpecShare  a seeded dry run, then the same seeded run through a relay   *)
(*            that draws from the same random source.                      *)
(* SpecStream the cycles of stream_readings and its consumer.              *)
(* SpecLoad, SpecLatency, SpecValidate, SpecReport                         *)
(*            from_yaml and startup, get_latency_ms, ValidateRecordFn and  *)
(*            the flags and rounding of generate_reading, each on its own. *)
(***************************************************************************)
EXTENDS Integers, Sequences, FiniteSets, TLC

\* ------------------------------------------------------------------ bounds
MaxReadings == 2
MaxCalls == 3
MaxBatches == 3
MaxTime == 3
NumMeters == 2
DurationLimit == 2
Interval == 1

MaxLatency == 3
MaxJitter == 2

\* ------------------------------------------------- constants of the program
ReorderDelay == 2

VARIABLES
    \* ---- relay (gateway_relay.py)
    mode,          \* "api": methods called directly; "run": run_with_simulator
    dropProb,      \* network_profile.drop_prob, in percent
    reorderProb,   \* network_profile.reorder_prob, in percent
    duration,      \* duration_seconds of run_with_simulator (0 = unbounded)
    now,           \* time.time()
    generated,     \* number of readings the simulator has generated
    queue,         \* readings of the current batch not yet handed to publish()
    cycleStart,    \* stream_readings: cycle_start
    pc,            \* position of the main thread
    op,            \* the method the caller invoked last
    msg,           \* publish(): the reading being processed (0 = none)
    held,          \* the entry popped from the buffer, not yet forwarded
    drainNow,      \* _process_reorder_buffer: now
    callStart,     \* time at which the current publish() call started
    ret,           \* return value of the last publish() call
    batchCount,    \* publish_batch: published
    batchRet,      \* return value of the last publish_batch() call
    batchFirst,    \* number of readings generated before the last
                   \* publish_batch() call's messages
    shutdownBy,    \* caller of the running shutdown(): api / handler / finally
    saved,         \* the frame the signal handler interrupted
    signalled,     \* the stop signal has arrived
    shutdownFlag,  \* self._shutdown
    stats,         \* GatewayStats counters
    buffer,        \* self._reorder_buffer: sequence of [t, m]
    sent,          \* readings handed to _do_publish, in order
    pending,       \* number of futures whose done-callback has not run yet
    droppedIds,    \* readings whose drop draw succeeded
    lastSummary,   \* the last stats snapshot shutdown() emitted
    trace,         \* the latest publish() call: its message and its steps so far
    \* ---- GatewayStats at the level of its lock (gateway_relay.py 79-122)
    lock,          \* self._lock: "free" or the thread holding it
    tpc,           \* per thread: position inside record_* / get_summary
    tcnt,          \* per thread: the counter its record_* call increments
    treg,          \* per thread: the value its += has loaded
    made,          \* per counter: number of record_* calls made
    snap,          \* get_summary: the fields read so far
    lastSnap,      \* the snapshot the last get_summary returned
    seen,          \* every value the counter set has had
    \* ---- meter simulator (simulator.py)
    simCfg,        \* SimulatorConfig
    meters,        \* self.meters: per meter seq, in_sag, sag_remaining_seconds,
                   \* sag_depth
    lastForceSag,  \* self._last_force_sag_time
    cursor,        \* generate_batch: index of the next meter (0 = no batch)
    batches,       \* number of generate_batch calls made
    reading,       \* the reading generate_reading returned last
    sagTrack,      \* per meter: the sampled duration of its latest sag and the
                   \* ticks counted since that sag started
    seed,          \* the seed given to MeterSimulator (0 = None)
    rng,           \* state of the seeded generator behind random.*
    runNo,         \* 0: unseeded; 1, 2: first and second run with the seed
    log,           \* the readings the current seeded run has produced
    firstLog,      \* the readings the first seeded run produced
    \* ---- functions examined on their own
    cfgDict,       \* the parsed YAML dictionary handed to from_yaml
    loaded,        \* the SimulatorConfig from_yaml returned
    loadStage,     \* how far startup has come with that configuration
    profile,       \* a NetworkProfile
    latency,       \* the draws and the result of its last get_latency_ms()
    element,       \* the record handed to ValidateRecordFn.process
    results,       \* what process() has yielded for it
    stream,        \* the locals of a stream_readings() generator and its
                   \* position
    report,        \* a computed voltage, and the flags and the voltage_v
                   \* generate_reading returns for it
    share          \* the network profile of the relay that consumes a seeded
                   \* run, and the number of readings it has taken

relayVars == <<mode, dropProb, reorderProb, duration, now, generated, queue,
               cycleStart, pc, op, msg, held, drainNow, callStart, ret,
               batchCount, batchRet, batchFirst, shutdownBy, saved, signalled,
               shutdownFlag, stats, buffer, sent, pending, droppedIds,
               lastSummary, trace>>

lockVars == <<lock, tpc, tcnt, treg, made, snap, lastSnap, seen>>

seedVars == <<seed, rng, runNo, log, firstLog>>

simVars == <<simCfg, meters, lastForceSag, cursor, batches, reading, sagTrack,
             seedVars>>

loadVars == <<cfgDict, loaded, loadStage>>

latVars == <<profile, latency>>

valVars == <<element, results>>

streamVars == <<stream>>

reportVars == <<report>>

shareVars == <<share>>

pureVars == <<loadVars, latVars, valVars, streamVars, reportVars, shareVars>>

vars == <<relayVars, lockVars, simVars, pureVars>>

\* ------------------------------------------------------------ helpers
Range(s) == {s[i] : i \in 1..Len(s)}

BufferIds == {buffer[i].m : i \in 1..Len(buffer)}

\* random.random() scaled to percent: a value of [0, 100)
RandomDraws == {0, 50, 99}

\* the (drop_prob, reorder_prob) pairs explored, in percent
Profiles == {<<0, 0>>, <<0, 100>>, <<100, 0>>, <<50, 50>>}

ZeroStats == [received |-> 0, published |-> 0, dropped |-> 0,
              reordered |-> 0, errors |-> 0]

\* no entry popped: the locals msg_time, message are unset
NoEntry == [t |-> 0, m |-> 0]

NoFrame == [pc |-> "none", by |-> "none", msg |-> 0, held |-> NoEntry,
            queue |-> <<>>]

NoTrace == [m |-> 0, steps |-> <<>>]

\* the latest publish() call takes the step e
Step(e) == trace' = [trace EXCEPT !.steps = Append(@, e)]

NoSummary == [emitted |-> FALSE, by |-> "none", counters |-> ZeroStats,
              buffered |-> 0, handed |-> 0]

\* NetworkProfile.should_drop: random.random() < self.drop_prob
should_drop(r) == r < dropProb

\* NetworkProfile.should_reorder: random.random() < self.reorder_prob
should_reorder(r) == r < reorderProb

\* GatewayStats.record_*: one counter incremented under the lock
record(s, c) == [s EXCEPT ![c] = @ + 1]

\* _process_reorder_buffer: now - msg_time >= self._reorder_delay_seconds
DueStrict(e, t) == t - e.t > ReorderDelay
Due(e, t) == t - e.t >= ReorderDelay

\* flush: while self._reorder_buffer
FlushHasWorkDue == buffer # <<>> /\ Due(Head(buffer), now)
FlushHasWork == buffer # <<>>

\* ------------------------------------------------------------ variable groups
cfgVars == <<mode, dropProb, reorderProb, duration>>
genVars == <<generated, queue, cycleStart>>
callVars == <<op, ret, batchCount, batchRet, batchFirst>>
frameVars == <<msg, held, drainNow, callStart>>
sigVars == <<shutdownBy, saved, signalled, shutdownFlag>>
dataVars == <<stats, buffer, sent, pending>>
ghostVars == <<droppedIds, lastSummary, trace>>

\* ------------------------------------------------------------ initial state
\* GatewayRelay.__init__ and GatewayStats.__init__
RelayStart(modes, profiles) ==
    /\ mode \in modes
    /\ \E p \in profiles : dropProb = p[1] /\ reorderProb = p[2]
    /\ duration \in (IF mode = "run" THEN {0, DurationLimit} ELSE {0})
    /\ now = 0
    /\ generated = 0
    /\ queue = <<>>
    /\ cycleStart = 0
    /\ pc = CASE mode = "run" -> "r_cycle"
              [] mode = "api" -> "idle"
              [] OTHER -> "off"
    /\ op = IF mode = "run" THEN "run" ELSE "none"
    /\ msg = 0
    /\ held = NoEntry
    /\ drainNow = 0
    /\ callStart = 0
    /\ ret = "none"
    /\ batchCount = 0
    /\ batchRet = -1
    /\ batchFirst = 0
    /\ shutdownBy = "none"
    /\ saved = NoFrame
    /\ signalled = FALSE
    /\ shutdownFlag = FALSE
    /\ stats = ZeroStats
    /\ buffer = <<>>
    /\ sent = <<>>
    /\ pending = 0
    /\ droppedIds = {}
    /\ lastSummary = NoSummary
    /\ trace = NoTrace

RelayInit == RelayStart({"api", "run"}, Profiles)

\* the relay is not running: only its GatewayStats object is exercised
RelayOff == RelayStart({"off"}, {<<0, 0>>})

\* ------------------------------------------------------------ the clock
Tick ==
    /\ pc # "exited"
    /\ now < MaxTime
    /\ now' = now + 1
    /\ UNCHANGED <<simVars, pureVars, lockVars, cfgVars, genVars, callVars, frameVars, sigVars, dataVars,
                   ghostVars, pc>>

\* ------------------------------------------------------------ direct calls
\* a new call starts: what the previous call returned or logged is history
NewCall(o) ==
    /\ mode = "api" /\ pc = "idle"
    /\ op' = o
    /\ ret' = "none"
    /\ batchRet' = -1
    /\ batchFirst' = IF o = "publish_batch" THEN generated ELSE 0
    /\ lastSummary' = NoSummary
    /\ trace' = NoTrace

\* a caller invokes relay.publish(message) with a fresh reading
CallPublish ==
    /\ NewCall("publish")
    /\ generated < MaxReadings
    /\ generated' = generated + 1
    /\ msg' = generated + 1
    /\ pc' = "p_begin"
    /\ UNCHANGED <<simVars, pureVars, lockVars, cfgVars, now, queue, cycleStart, batchCount, held, drainNow,
                   callStart, sigVars, dataVars, droppedIds>>

\* a caller invokes relay.publish_batch(messages) with k fresh readings
CallPublishBatch ==
    /\ NewCall("publish_batch")
    /\ \E k \in 0..NumMeters :
        /\ generated + k <= MaxReadings
        /\ generated' = generated + k
        /\ queue' = [i \in 1..k |-> generated + i]
    /\ batchCount' = 0
    /\ pc' = "b_next"
    /\ UNCHANGED <<simVars, pureVars, lockVars, cfgVars, now, cycleStart, frameVars, sigVars, dataVars,
                   droppedIds>>

\* publish_batch: for message in messages ... return published
BatchNext ==
    /\ pc = "b_next"
    /\ IF queue = <<>>
       THEN /\ batchRet' = batchCount
            /\ batchCount' = 0
            /\ pc' = "idle"
            /\ UNCHANGED <<msg, queue>>
       ELSE /\ msg' = Head(queue)
            /\ queue' = Tail(queue)
            /\ pc' = "p_begin"
            /\ UNCHANGED <<batchRet, batchCount>>
    /\ UNCHANGED <<simVars, pureVars, lockVars, cfgVars, now, generated, cycleStart, op, ret, held,
                   drainNow, callStart, sigVars, dataVars, ghostVars,
                   batchFirst>>

CallFlush ==
    /\ NewCall("flush")
    /\ pc' = "f_loop"
    /\ UNCHANGED <<simVars, pureVars, lockVars, cfgVars, now, genVars, batchCount, frameVars, sigVars,
                   dataVars, droppedIds>>

CallShutdown ==
    /\ NewCall("shutdown")
    /\ shutdownBy' = "api"
    /\ pc' = "sd_set"
    /\ UNCHANGED <<simVars, pureVars, lockVars, cfgVars, now, genVars, batchCount, frameVars, saved,
                   signalled, shutdownFlag, dataVars, droppedIds>>

\* ------------------------------------------------------------ publish()
\* a publish_batch that counts every message, whatever publish() returned
PublishReturnCountAll(v) ==
    /\ ret' = v
    /\ msg' = 0
    /\ drainNow' = 0
    /\ callStart' = 0
    /\ batchCount' = IF op = "publish_batch"
                     THEN batchCount + 1 ELSE batchCount
    /\ pc' = CASE op = "publish_batch" -> "b_next"
               [] op = "run" -> "r_yield"
               [] OTHER -> "idle"

\* publish() returns v to its caller: publish_batch, run_with_simulator's loop
\* or the direct caller
PublishReturn(v) ==
    /\ ret' = v
    /\ msg' = 0
    /\ drainNow' = 0
    /\ callStart' = 0
    /\ batchCount' = IF op = "publish_batch" /\ v = "True"
                     THEN batchCount + 1 ELSE batchCount
    /\ pc' = CASE op = "publish_batch" -> "b_next"
               [] op = "run" -> "r_yield"
               [] OTHER -> "idle"

\* self.stats.record_received()
PublishBegin ==
    /\ pc = "p_begin"
    /\ stats' = record(stats, "received")
    /\ callStart' = now
    /\ trace' = [m |-> msg, steps |-> <<"received">>]
    /\ pc' = "p_drop"
    /\ UNCHANGED <<simVars, pureVars, lockVars, cfgVars, now, genVars, callVars, msg, held, drainNow,
                   sigVars, buffer, sent, pending, droppedIds, lastSummary>>

\* a drop branch that records the drop but lacks the return
PublishDropFallThrough ==
    /\ pc = "p_drop"
    /\ \E r \in RandomDraws : should_drop(r)
    /\ stats' = record(stats, "dropped")
    /\ droppedIds' = droppedIds \cup {msg}
    /\ Step("dropped")
    /\ pc' = "p_sleep"
    /\ UNCHANGED <<simVars, pureVars, lockVars, cfgVars, now, genVars, callVars, frameVars, sigVars, buffer,
                   sent, pending, lastSummary>>

\* if should_drop(): record_dropped(); return False
PublishDrop ==
    /\ pc = "p_drop"
    /\ \E r \in RandomDraws : should_drop(r)
    /\ stats' = record(stats, "dropped")
    /\ droppedIds' = droppedIds \cup {msg}
    /\ Step("dropped")
    /\ PublishReturn("False")
    /\ UNCHANGED <<simVars, pureVars, lockVars, cfgVars, now, genVars, op, batchRet, batchFirst, held, sigVars, buffer,
                   sent, pending, lastSummary>>

\* a publish() that makes its reorder draw without the latency sleep
PublishNoSleep ==
    /\ pc = "p_drop"
    /\ \E r \in RandomDraws : ~should_drop(r)
    /\ pc' = "p_reorder"
    /\ UNCHANGED <<simVars, pureVars, lockVars, cfgVars, now, genVars, callVars, frameVars, sigVars,
                   dataVars, ghostVars>>

\* not dropped: latency_ms = get_latency_ms(); time.sleep(latency_ms / 1000.0)
PublishSleep ==
    /\ pc = "p_drop"
    /\ \E r \in RandomDraws : ~should_drop(r)
    /\ Step("sleep")
    /\ pc' = "p_sleep"
    /\ UNCHANGED <<simVars, pureVars, lockVars, cfgVars, now, genVars, callVars, frameVars, sigVars,
                   dataVars, droppedIds, lastSummary>>

\* the latency sleep returns
LatencyWake ==
    /\ pc = "p_sleep"
    /\ Step("woke")
    /\ pc' = "p_reorder"
    /\ UNCHANGED <<simVars, pureVars, lockVars, cfgVars, now, genVars, callVars, frameVars, sigVars,
                   dataVars, droppedIds, lastSummary>>

\* _do_publish(message): publisher.publish(...); add_done_callback
DoPublish(m) ==
    /\ sent' = Append(sent, m)
    /\ pending' = pending + 1
\* a publish() that puts the delayed reading at the front of the buffer
PublishReorderFront ==
    /\ pc = "p_reorder"
    /\ \E r \in RandomDraws : should_reorder(r)
    /\ stats' = record(stats, "reordered")
    /\ buffer' = <<[t |-> now, m |-> msg]>> \o buffer
    /\ Step("queued")
    /\ pc' = "d_begin"
    /\ UNCHANGED <<simVars, pureVars, lockVars, cfgVars, now, genVars, callVars, frameVars, sigVars, sent,
                   pending, droppedIds, lastSummary>>

\* if should_reorder(): record_reordered(); buffer.append((time.time(), message))
PublishReorder ==
    /\ pc = "p_reorder"
    /\ \E r \in RandomDraws : should_reorder(r)
    /\ stats' = record(stats, "reordered")
    /\ buffer' = Append(buffer, [t |-> now, m |-> msg])
    /\ Step("queued")
    /\ pc' = "d_begin"
    /\ UNCHANGED <<simVars, pureVars, lockVars, cfgVars, now, genVars, callVars, frameVars, sigVars, sent,
                   pending, droppedIds, lastSummary>>

\* else: self._do_publish(message)
PublishForward ==
    /\ pc = "p_reorder"
    /\ \E r \in RandomDraws : ~should_reorder(r)
    /\ DoPublish(msg)
    /\ Step("forwarded")
    /\ pc' = "d_begin"
    /\ UNCHANGED <<simVars, pureVars, lockVars, cfgVars, now, genVars, callVars, frameVars, sigVars, stats,
                   buffer, droppedIds, lastSummary>>

\* _process_reorder_buffer: now = time.time()
DrainBegin ==
    /\ pc = "d_begin"
    /\ drainNow' = now
    /\ pc' = "d_loop"
    /\ UNCHANGED <<simVars, pureVars, lockVars, cfgVars, now, genVars, callVars, msg, held, callStart,
                   sigVars, dataVars, ghostVars>>

\* head is due: self._reorder_buffer.popleft()
DrainPop ==
    /\ pc = "d_loop"
    /\ buffer # <<>> /\ Due(Head(buffer), drainNow)
    /\ held' = Head(buffer)
    /\ buffer' = Tail(buffer)
    /\ pc' = "d_pub"
    /\ UNCHANGED <<simVars, pureVars, lockVars, cfgVars, now, genVars, callVars, msg, drainNow, callStart,
                   sigVars, stats, sent, pending, ghostVars>>

\* self._do_publish(message) of the popped entry
DrainPublish ==
    /\ pc = "d_pub"
    /\ DoPublish(held.m)
    /\ held' = NoEntry
    /\ pc' = "d_loop"
    /\ UNCHANGED <<simVars, pureVars, lockVars, cfgVars, now, genVars, callVars, msg, drainNow, callStart,
                   sigVars, stats, buffer, ghostVars>>

\* buffer empty or head not due: break; return True
DrainDone ==
    /\ pc = "d_loop"
    /\ ~(buffer # <<>> /\ Due(Head(buffer), drainNow))
    /\ PublishReturn("True")
    /\ UNCHANGED <<simVars, pureVars, lockVars, cfgVars, now, genVars, op, batchRet, batchFirst, held, sigVars,
                   dataVars, ghostVars>>
\* a flush that reads the first entry and leaves it in the buffer
FlushPeek ==
    /\ pc = "f_loop"
    /\ FlushHasWork
    /\ held' = [t |-> 0, m |-> Head(buffer).m]
    /\ pc' = "f_pub"
    /\ UNCHANGED <<simVars, pureVars, lockVars, cfgVars, now, genVars, callVars, msg, drainNow, callStart,
                   sigVars, stats, buffer, sent, pending, ghostVars>>

\* ------------------------------------------------------------ flush()
FlushPop ==
    /\ pc = "f_loop"
    /\ FlushHasWork
    /\ held' = [t |-> 0, m |-> Head(buffer).m]
    /\ buffer' = Tail(buffer)
    /\ pc' = "f_pub"
    /\ UNCHANGED <<simVars, pureVars, lockVars, cfgVars, now, genVars, callVars, msg, drainNow, callStart,
                   sigVars, stats, sent, pending, ghostVars>>

FlushPublish ==
    /\ pc = "f_pub"
    /\ DoPublish(held.m)
    /\ held' = NoEntry
    /\ pc' = "f_loop"
    /\ UNCHANGED <<simVars, pureVars, lockVars, cfgVars, now, genVars, callVars, msg, drainNow, callStart,
                   sigVars, stats, buffer, ghostVars>>

\* the loop ends; flush returns to shutdown() or to the direct caller
FlushDone ==
    /\ pc = "f_loop"
    /\ ~FlushHasWork
    /\ pc' = IF shutdownBy = "none" THEN "idle" ELSE "sd_summary"
    /\ UNCHANGED <<simVars, pureVars, lockVars, cfgVars, now, genVars, callVars, frameVars, sigVars,
                   dataVars, ghostVars>>

\* ------------------------------------------------------------ shutdown()
\* self._shutdown.set(); self.flush()
ShutdownSet ==
    /\ pc = "sd_set"
    /\ shutdownFlag' = TRUE
    /\ pc' = "f_loop"
    /\ UNCHANGED <<simVars, pureVars, lockVars, cfgVars, now, genVars, callVars, frameVars, shutdownBy,
                   saved, signalled, dataVars, ghostVars>>

\* logger.info(json.dumps(self.stats.get_summary())), then return
ShutdownSummary ==
    /\ pc = "sd_summary"
    /\ lastSummary' = [emitted |-> TRUE, by |-> shutdownBy, counters |-> stats,
                       buffered |-> Len(buffer), handed |-> Len(sent)]
    /\ pc' = CASE shutdownBy = "handler" -> "h_exit"
               [] shutdownBy = "finally" -> "exited"
               [] OTHER -> "idle"
    /\ shutdownBy' = IF shutdownBy = "api" THEN "none" ELSE shutdownBy
    /\ UNCHANGED <<simVars, pureVars, lockVars, cfgVars, now, genVars, callVars, frameVars, saved,
                   signalled, shutdownFlag, dataVars, droppedIds, trace>>

\* ------------------------------------------------------------ run_with_simulator
\* stream_readings: elapsed = cycle_start - start_time >= duration_seconds
DurationElapsed == duration > 0 /\ now - 0 >= duration

\* stream_readings: cycle_start = time.time(); readings = generate_batch(...)
GenBatch ==
    /\ pc = "r_cycle"
    /\ ~DurationElapsed
    /\ generated + NumMeters <= MaxReadings
    /\ cycleStart' = now
    /\ generated' = generated + NumMeters
    /\ queue' = [i \in 1..NumMeters |-> generated + i]
    /\ pc' = "r_yield"
    /\ UNCHANGED <<simVars, pureVars, lockVars, cfgVars, now, callVars, frameVars, sigVars, dataVars,
                   ghostVars>>

\* stream_readings: duration limit reached: break; the generator ends, the for
\* loop of run_with_simulator ends and its finally block calls shutdown()
DurationReached ==
    /\ pc = "r_cycle"
    /\ DurationElapsed
    /\ shutdownBy' = "finally"
    /\ pc' = "sd_set"
    /\ UNCHANGED <<simVars, pureVars, lockVars, cfgVars, now, genVars, callVars, frameVars, saved,
                   signalled, shutdownFlag, dataVars, ghostVars>>

\* for reading in stream_readings(): if _shutdown.is_set(): break
\*                                   self.publish(reading)
Yield ==
    /\ pc = "r_yield"
    /\ queue # <<>>
    /\ IF shutdownFlag
       THEN /\ shutdownBy' = "finally"
            /\ pc' = "sd_set"
            /\ queue' = <<>>
            /\ UNCHANGED msg
       ELSE /\ msg' = Head(queue)
            /\ queue' = Tail(queue)
            /\ pc' = "p_begin"
            /\ UNCHANGED shutdownBy
    /\ UNCHANGED <<simVars, pureVars, lockVars, cfgVars, now, generated, cycleStart, callVars, held,
                   drainNow, callStart, saved, signalled, shutdownFlag,
                   dataVars, ghostVars>>

\* the batch is exhausted: sleep_time = max(0, interval - cycle_duration)
BatchDone ==
    /\ pc = "r_yield"
    /\ queue = <<>>
    /\ pc' = "r_pace"
    /\ UNCHANGED <<simVars, pureVars, lockVars, cfgVars, now, genVars, callVars, frameVars, sigVars,
                   dataVars, ghostVars>>

\* the pacing sleep returns once the interval has elapsed since cycle_start
PaceWake ==
    /\ pc = "r_pace"
    /\ now >= cycleStart + Interval
    /\ pc' = "r_cycle"
    /\ UNCHANGED <<simVars, pureVars, lockVars, cfgVars, now, genVars, callVars, frameVars, sigVars,
                   dataVars, ghostVars>>

\* ------------------------------------------------------------ stop signal
\* SIGINT/SIGTERM arrives: the interpreter runs signal_handler on the main
\* thread, on top of the interrupted frame; the handler calls shutdown()
SignalArrives ==
    /\ mode = "run"
    /\ ~signalled
    /\ pc # "exited"
    /\ signalled' = TRUE
    /\ saved' = [pc |-> pc, by |-> shutdownBy, msg |-> msg, held |-> held,
                 queue |-> queue]
    /\ shutdownBy' = "handler"
    /\ held' = NoEntry
    /\ pc' = "sd_set"
    /\ UNCHANGED <<simVars, pureVars, lockVars, cfgVars, now, genVars, callVars, msg, drainNow, callStart,
                   shutdownFlag, dataVars, ghostVars>>

\* a handler that returned would resume the interrupted frame
HandlerReturn ==
    /\ pc' = saved.pc
    /\ shutdownBy' = saved.by
    /\ msg' = saved.msg
    /\ held' = saved.held
    /\ queue' = saved.queue

\* sys.exit(0) raises SystemExit in the interrupted frame: its locals are
\* discarded; inside the try block of run_with_simulator the finally block
\* runs shutdown() once more, inside that finally block the process ends
HandlerExit ==
    /\ msg' = 0
    /\ held' = NoEntry
    /\ queue' = <<>>
    /\ IF saved.by = "finally"
       THEN pc' = "exited" /\ shutdownBy' = "finally"
       ELSE pc' = "sd_set" /\ shutdownBy' = "finally"

SignalHandlerEnd ==
    /\ pc = "h_exit"
    /\ HandlerExit
    /\ saved' = NoFrame
    /\ UNCHANGED <<simVars, pureVars, lockVars, cfgVars, now, generated, cycleStart, callVars, drainNow,
                   callStart, signalled, shutdownFlag, dataVars, ghostVars>>

\* ------------------------------------------------------------ confirmations
\* a confirmation that reported failure and handed the reading to the sink again
CallbackRetry ==
    /\ stats' = record(stats, "errors")
    /\ \E i \in Range(sent) : sent' = Append(sent, i)
    /\ pending' = pending

\* _publish_callback, future.result() raises: record_error()
CallbackError ==
    /\ stats' = record(stats, "errors")
    /\ sent' = sent
    /\ pending' = pending - 1

\* _publish_callback, future.result() returns: record_published()
CallbackOk ==
    /\ pc # "exited"
    /\ pending > 0
    /\ stats' = record(stats, "published")
    /\ pending' = pending - 1
    /\ UNCHANGED <<simVars, pureVars, lockVars, cfgVars, now, genVars, callVars, frameVars, sigVars, pc,
                   buffer, sent, ghostVars>>
\* a confirmation path that puts the failed reading back into the reorder
\* buffer for another attempt
CallbackFailRequeue ==
    /\ pc # "exited"
    /\ pending > 0
    /\ stats' = record(stats, "errors")
    /\ pending' = pending - 1
    /\ buffer' = Append(buffer, [t |-> now, m |-> sent[Len(sent)]])
    /\ UNCHANGED <<simVars, pureVars, lockVars, cfgVars, now, genVars, callVars, frameVars, sigVars, pc,
                   sent, ghostVars>>

CallbackFail ==
    /\ pc # "exited"
    /\ pending > 0
    /\ CallbackError
    /\ UNCHANGED <<simVars, pureVars, lockVars, cfgVars, now, genVars, callVars, frameVars, sigVars, pc,
                   buffer, ghostVars>>

\* ------------------------------------------------------------ GatewayStats
Threads == {"main", "callback"}

Counters == {"received", "published", "dropped", "reordered", "errors"}

\* get_summary reads the counters in this order
SummaryFields == <<"received", "published", "dropped", "reordered", "errors">>

\* the main loop records received/dropped/reordered; _publish_callback records
\* published/errors on the confirmation thread, or on the main thread when
\* the future is already done at add_done_callback
CountersOf(t) ==
    IF t = "main" THEN Counters ELSE {"published", "errors"}

NoSnap == <<>>

LockInit ==
    /\ lock = "free"
    /\ tpc = [t \in Threads |-> "idle"]
    /\ tcnt = [t \in Threads |-> "none"]
    /\ treg = [t \in Threads |-> 0]
    /\ made = [c \in Counters |-> 0]
    /\ snap = NoSnap
    /\ lastSnap = NoSnap
    /\ seen = {ZeroStats}

\* the lock-level view is not exercised: record_* is one atomic step
LockOff ==
    /\ lock = "free"
    /\ tpc = [t \in Threads |-> "idle"]
    /\ tcnt = [t \in Threads |-> "none"]
    /\ treg = [t \in Threads |-> 0]
    /\ made = [c \in Counters |-> 0]
    /\ snap = NoSnap
    /\ lastSnap = NoSnap
    /\ seen = {}

\* a statistics object whose methods do not take the lock
CanAcquireUnlocked == TRUE

\* with self._lock: the lock can be taken only while no thread holds it
CanAcquire == lock = "free"

\* a thread calls record_received / record_published / ... (count = 1)
StatsCall(t) ==
    /\ tpc[t] = "idle"
    /\ made["received"] + made["published"] + made["dropped"]
         + made["reordered"] + made["errors"] < MaxCalls
    /\ \E c \in CountersOf(t) :
        /\ tcnt' = [tcnt EXCEPT ![t] = c]
        /\ made' = [made EXCEPT ![c] = @ + 1]
    /\ tpc' = [tpc EXCEPT ![t] = "acquire"]
    /\ UNCHANGED <<simVars, pureVars, relayVars, lock, treg, snap, lastSnap, seen>>

\* the main loop calls get_summary()
SummaryCall ==
    /\ tpc["main"] = "idle"
    /\ tcnt' = [tcnt EXCEPT !["main"] = "summary"]
    /\ tpc' = [tpc EXCEPT !["main"] = "acquire"]
    /\ snap' = NoSnap
    /\ lastSnap' = NoSnap
    /\ UNCHANGED <<simVars, pureVars, relayVars, lock, treg, made, seen>>

\* __enter__ of the with block
Acquire(t) ==
    /\ tpc[t] = "acquire"
    /\ CanAcquire
    /\ lock' = t
    /\ tpc' = [tpc EXCEPT ![t] = IF tcnt[t] = "summary" THEN "read" ELSE "load"]
    /\ UNCHANGED <<simVars, pureVars, relayVars, tcnt, treg, made, snap, lastSnap, seen>>

\* self.messages_x += count: the load
Load(t) ==
    /\ tpc[t] = "load"
    /\ treg' = [treg EXCEPT ![t] = stats[tcnt[t]]]
    /\ tpc' = [tpc EXCEPT ![t] = "store"]
    /\ UNCHANGED <<simVars, pureVars, cfgVars, now, genVars, callVars, frameVars,
                   sigVars, pc, dataVars, ghostVars, lock, tcnt, made, snap, lastSnap, seen>>

\* self.messages_x += count: the store
Store(t) ==
    /\ tpc[t] = "store"
    /\ stats' = [stats EXCEPT ![tcnt[t]] = treg[t] + 1]
    /\ seen' = seen \cup {stats'}
    /\ treg' = [treg EXCEPT ![t] = 0]
    /\ tpc' = [tpc EXCEPT ![t] = "release"]
    /\ UNCHANGED <<simVars, pureVars, cfgVars, now, genVars, callVars, frameVars,
                   sigVars, pc, buffer, sent, pending, ghostVars, lock, tcnt, made, snap,
                   lastSnap>>

\* get_summary: the next counter is read into the dictionary
SummaryRead ==
    /\ tpc["main"] = "read"
    /\ Len(snap) < Len(SummaryFields)
    /\ snap' = Append(snap, stats[SummaryFields[Len(snap) + 1]])
    /\ UNCHANGED <<simVars, pureVars, relayVars, lock, tpc, tcnt, treg, made, lastSnap, seen>>

\* get_summary: return {...}
SummaryReturn ==
    /\ tpc["main"] = "read"
    /\ Len(snap) = Len(SummaryFields)
    /\ lastSnap' = snap
    /\ snap' = NoSnap
    /\ tpc' = [tpc EXCEPT !["main"] = "release"]
    /\ UNCHANGED <<simVars, pureVars, relayVars, lock, tcnt, treg, made, seen>>

\* __exit__ of the with block
Release(t) ==
    /\ tpc[t] = "release"
    /\ lock' = "free"
    /\ tcnt' = [tcnt EXCEPT ![t] = "none"]
    /\ tpc' = [tpc EXCEPT ![t] = "idle"]
    /\ UNCHANGED <<simVars, pureVars, relayVars, treg, made, snap, lastSnap, seen>>

\* ------------------------------------------------------------ meter simulator
\* random.gauss(0, voltage_noise_std): the draws explored, in volts
NoiseDraws == {-25, 0, 25}

\* base_power * meter.meter_factor * power_noise before the clamp, in kW: the
\* draws explored (power_noise = 1 + gauss(0, noise_factor) can be negative)
PowerDraws == {-1, 2}

\* (sag_probability in percent, force_sag_interval_seconds)
SagTriggers == {<<50, 0>>, <<0, 0>>}

\* (duration range, depth range): the defaults' shape, and ranges that reach 0
SagRanges == {<<1, 2, 10, 30>>, <<0, 1, 0, 10>>}

\* demo mode: a forced sag every second, each sag two ticks long, so that a
\* meter is still in its sag when the interval has elapsed again
ForcedTriggers == {<<0, 1>>}

ForcedRanges == {<<2, 2, 10, 10>>}

\* the SimulatorConfig with trigger tr and ranges ra
Config(tr, ra) ==
    [voltage_nominal |-> 240, sag_threshold |-> 220, swell_threshold |-> 260,
     sag_probability |-> tr[1], force_sag_interval |-> tr[2],
     sag_duration_min |-> ra[1], sag_duration_max |-> ra[2],
     sag_depth_min |-> ra[3], sag_depth_max |-> ra[4]]

\* configuration dictionaries handed to SimulatorConfig.from_yaml
NominalConfigs ==
    {Config(tr, ra) : tr \in SagTriggers, ra \in SagRanges}
      \cup {Config(tr, ra) : tr \in ForcedTriggers, ra \in ForcedRanges}

\* a feeder whose nominal voltage is below noise plus sag depth, so that the
\* computed voltage can be zero or negative
LowVoltageConfigs ==
    {[voltage_nominal |-> 35, sag_threshold |-> 30, swell_threshold |-> 40,
      sag_probability |-> 50, force_sag_interval |-> 0,
      sag_duration_min |-> 1, sag_duration_max |-> 1,
      sag_depth_min |-> 10, sag_depth_max |-> 10]}

SimConfigs == NominalConfigs \cup LowVoltageConfigs

\* SimulatorConfig.from_yaml copies the values (or their defaults) into the
\* dataclass; it checks no value and no range
LoaderAccepts(c) == TRUE

\* MeterState defaults: seq = 0, power_factor = 0.95 (in percent), in_sag =
\* False, sag_remaining_seconds = 0, sag_depth = 0.0
NewMeter == [seq |-> 0, power_factor |-> 95, in_sag |-> FALSE,
             sag_remaining_seconds |-> 0, sag_depth |-> 0]

NoReading == [meter |-> 0, seq |-> 0, voltage_v |-> 0, voltage_noise |-> 0,
              sag_adjustment |-> 0, power_kw |-> 0, current_a |-> 0,
              quality_flags |-> <<>>]

NoTrack == [started |-> FALSE, ended |-> FALSE, D |-> 0, ticks |-> 0,
            negative |-> 0]

\* MeterSimulator.__init__
SimStart(configs) ==
    /\ simCfg \in {c \in configs : LoaderAccepts(c)}
    /\ meters = [m \in 1..NumMeters |-> NewMeter]
    /\ lastForceSag = 0
    /\ cursor = 0
    /\ batches = 0
    /\ reading = NoReading
    /\ sagTrack = [m \in 1..NumMeters |-> NoTrack]
    /\ seed = 0
    /\ rng = 0
    /\ runNo = 0
    /\ log = <<>>
    /\ firstLog = <<>>

SimInit == SimStart(SimConfigs)

\* the simulator is not running
SimOff == SimStart({CHOOSE c \in SimConfigs :
                       /\ c.sag_probability = 0 /\ c.force_sag_interval = 0
                       /\ c.sag_duration_min = 1 /\ c.sag_depth_min = 10})
\* a forced-sag test that does not look at the meter's state
ForcedSagDueAnyState(m) ==
    /\ simCfg.force_sag_interval > 0
    /\ now - lastForceSag >= simCfg.force_sag_interval

\* _should_start_sag: the forced-sag branch is taken
ForcedSagDue(m) ==
    /\ ~meters[m].in_sag
    /\ simCfg.force_sag_interval > 0
    /\ now - lastForceSag >= simCfg.force_sag_interval

\* a sag test that also fires when the draw equals the probability
should_start_sag_inclusive(m, r) ==
    IF meters[m].in_sag THEN FALSE
    ELSE ForcedSagDue(m) \/ r <= simCfg.sag_probability

\* _should_start_sag(meter), r the value of random.random()
should_start_sag(m, r) ==
    IF meters[m].in_sag THEN FALSE
    ELSE ForcedSagDue(m) \/ r < simCfg.sag_probability

\* _update_sag_state(meter): the meter's state afterwards; r, depth and dur are
\* the values random.random(), random.uniform and random.randint return
update_sag_state(m, r, depth, dur) ==
    LET me == meters[m] IN
    IF me.in_sag
    THEN IF me.sag_remaining_seconds - 1 <= 0
         THEN [me EXCEPT !.sag_remaining_seconds = @ - 1, !.in_sag = FALSE,
                         !.sag_depth = 0]
         ELSE [me EXCEPT !.sag_remaining_seconds = @ - 1]
    ELSE IF should_start_sag(m, r)
         THEN [me EXCEPT !.in_sag = TRUE, !.sag_depth = depth,
                         !.sag_remaining_seconds = dur]
         ELSE me

\* _update_sag_state(meter): the voltage adjustment it returns
sag_adjustment(m, r, depth) ==
    LET me == meters[m] IN
    IF me.in_sag
    THEN IF me.sag_remaining_seconds - 1 <= 0 THEN 0 ELSE -me.sag_depth
    ELSE IF should_start_sag(m, r) THEN -depth ELSE 0

\* generate_reading: the flags of the computed voltage v for the thresholds
\* sag and swell, all three in one unit
flags_of(v, sag, swell) ==
    IF v < sag THEN <<"voltage_sag">>
    ELSE IF v > swell THEN <<"voltage_swell">>
    ELSE <<>>

\* generate_reading: quality_flags
quality_flags(v) == flags_of(v, simCfg.sag_threshold, simCfg.swell_threshold)

\* generate_reading: power_kw = max(0.0, base_power * meter_factor * noise)
unclamped_power(x) == x
clamp_power(x) == IF x > 0 THEN x ELSE 0

\* generate_reading: current_a, in A; v in volts, p in kW, pf in percent
current_a(v, p, pf) ==
    IF v > 0 /\ p > 0 THEN (p * 1000 * 100) \div (v * pf) ELSE 0

\* generate_reading: meter.seq += 1
skip_seq(n) == n + 2
next_seq(n) == n + 1

\* the sag bookkeeping of one tick: adj is the adjustment of the tick, after
\* the meter's state after it
TrackTick(m, after, dur, adj) ==
    LET tr == sagTrack[m]
        neg == IF adj < 0 THEN 1 ELSE 0 IN
    IF ~meters[m].in_sag /\ after.in_sag
    THEN [started |-> TRUE, ended |-> FALSE, D |-> dur, ticks |-> 1,
          negative |-> neg]
    ELSE IF meters[m].in_sag /\ after.in_sag
    THEN [tr EXCEPT !.ticks = @ + 1, !.negative = @ + neg]
    ELSE IF meters[m].in_sag /\ ~after.in_sag
    THEN [tr EXCEPT !.ended = TRUE, !.negative = @ + neg]
    ELSE NoTrack

\* random.random() is called by _should_start_sag only when the meter is not
\* in a sag and no forced sag is due
SagDraws(m) ==
    IF meters[m].in_sag \/ ForcedSagDue(m) THEN {0} ELSE RandomDraws

\* random.uniform(sag_depth_min, sag_depth_max) and
\* random.randint(sag_duration_min, sag_duration_max) are called only when a
\* sag starts
DepthDraws(m, r) ==
    IF should_start_sag(m, r)
    THEN {simCfg.sag_depth_min, simCfg.sag_depth_max} ELSE {0}

DurationDraws(m, r) ==
    IF should_start_sag(m, r)
    THEN simCfg.sag_duration_min..simCfg.sag_duration_max ELSE {0}

\* generate_batch(timestamp) is called
BatchStart ==
    /\ cursor = 0
    /\ batches < MaxBatches
    /\ batches' = batches + 1
    /\ cursor' = 1
    /\ UNCHANGED <<relayVars, lockVars, pureVars, simCfg, meters, lastForceSag, reading,
                   sagTrack, seedVars>>

\* generate_reading(meter, timestamp) for the next meter of self.meters; pw,
\* noise, r, depth and dur are the values the random source returns
ReadingStep(pw, noise, r, depth, dur) ==
    LET m == cursor
        after == update_sag_state(m, r, depth, dur)
        adj == sag_adjustment(m, r, depth)
        p == clamp_power(pw)
        v == simCfg.voltage_nominal + noise + adj IN
    /\ meters' = [meters EXCEPT ![m] = [after EXCEPT !.seq = next_seq(@)]]
    /\ lastForceSag' = IF ForcedSagDue(m) THEN now ELSE lastForceSag
    /\ reading' = [meter |-> m, seq |-> next_seq(after.seq), voltage_v |-> v,
                   voltage_noise |-> noise, sag_adjustment |-> adj,
                   power_kw |-> p,
                   current_a |-> current_a(v, p, meters[m].power_factor),
                   quality_flags |-> quality_flags(v)]
    /\ sagTrack' = [sagTrack EXCEPT ![m] = TrackTick(m, after, dur, adj)]
    /\ cursor' = IF cursor = NumMeters THEN 0 ELSE cursor + 1

\* generate_batch: reading = self.generate_reading(meter, timestamp), the
\* random source unseeded
GenerateReading ==
    /\ cursor \in 1..NumMeters
    /\ \E pw \in PowerDraws, noise \in NoiseDraws, r \in SagDraws(cursor) :
       \E depth \in DepthDraws(cursor, r), dur \in DurationDraws(cursor, r) :
           ReadingStep(pw, noise, r, depth, dur)
    /\ UNCHANGED <<relayVars, lockVars, pureVars, simCfg, batches, seedVars>>

\* time passes between and during batches; the simulator reads the clock only
\* for the forced sag
SimTick ==
    /\ simCfg.force_sag_interval > 0
    /\ now < MaxTime
    /\ now' = now + 1
    /\ UNCHANGED <<simVars, pureVars, lockVars, cfgVars, genVars, callVars, frameVars,
                   sigVars, dataVars, ghostVars, pc>>

\* ------------------------------------------------- seeded simulator runs
\* MeterSimulator(config, seed): the seeds explored
Seeds == {1, 2, 3}

\* the seeded generator: its next state; a draw reads the state and advances it
rng_next(s) == (5 * s + 3) % 16

RECURSIVE rng_after(_, _)
rng_after(s, k) == IF k = 0 THEN s ELSE rng_after(rng_next(s), k - 1)

\* the value a draw over the finite set S returns in generator state s
Pick(S, s) ==
    CHOOSE x \in S : Cardinality({y \in S : y < x}) = s % Cardinality(S)

\* __init__: random.seed(seed), then random.uniform twice per meter
seeded(sd) == rng_after(sd, 2 * NumMeters)

\* MeterSimulator.__init__(config, seed) with a seed
SeedInit ==
    /\ simCfg \in {c \in SimConfigs : LoaderAccepts(c)}
    /\ meters = [m \in 1..NumMeters |-> NewMeter]
    /\ lastForceSag = 0
    /\ cursor = 0
    /\ batches = 0
    /\ reading = NoReading
    /\ sagTrack = [m \in 1..NumMeters |-> NoTrack]
    /\ seed \in Seeds
    /\ rng = seeded(seed)
    /\ runNo = 1
    /\ log = <<>>
    /\ firstLog = <<>>

\* generate_reading with the seeded source, in the order of its calls:
\* gauss (power), gauss (voltage), random() unless the meter is in a sag or a
\* forced sag is due, uniform and randint when a sag starts, gauss (frequency)
SeededReading ==
    /\ cursor \in 1..NumMeters
    /\ LET m == cursor
           pw == Pick(PowerDraws, rng)
           s2 == rng_next(rng)
           noise == Pick(NoiseDraws, s2)
           drawn == ~meters[m].in_sag /\ ~ForcedSagDue(m)
           s3 == IF drawn THEN rng_next(s2) ELSE s2
           r == IF drawn THEN Pick(RandomDraws, s3) ELSE 0
           starts == should_start_sag(m, r)
           s4 == IF starts THEN rng_next(s3) ELSE s3
           depth == IF starts THEN Pick(DepthDraws(m, r), s4) ELSE 0
           s5 == IF starts THEN rng_next(s4) ELSE s4
           dur == IF starts /\ DurationDraws(m, r) # {}
                  THEN Pick(DurationDraws(m, r), s5) ELSE 0
       IN /\ ReadingStep(pw, noise, r, depth, dur)
          /\ rng' = rng_next(rng_next(s5))
    /\ log' = Append(log, reading')
    /\ UNCHANGED <<relayVars, lockVars, pureVars, simCfg, batches, seed, runNo, firstLog>>
\* stream_readings: the pacing sleep between two batches of a seeded run; the
\* time one batch takes is below the resolution of the clock
PacingSleep ==
    /\ cursor = 0
    /\ SimTick

\* the process ends and a second, independent run is started with the same
\* configuration and the same seed; time is measured from construction
Rerun ==
    /\ runNo = 1
    /\ cursor = 0
    /\ batches = MaxBatches
    /\ runNo' = 2
    /\ firstLog' = log
    /\ log' = <<>>
    /\ meters' = [m \in 1..NumMeters |-> NewMeter]
    /\ lastForceSag' = 0
    /\ now' = 0
    /\ batches' = 0
    /\ reading' = NoReading
    /\ sagTrack' = [m \in 1..NumMeters |-> NoTrack]
    /\ rng' = seeded(seed)
    /\ UNCHANGED <<lockVars, pureVars, cfgVars, genVars, callVars, frameVars,
                   sigVars, dataVars, ghostVars, pc, simCfg, cursor, seed>>

\* ------------------------------------------------- configuration loading
\* an optional value: <<>> is None (key absent), <<x>> the value x
Given(o) == o # <<>>

\* the default ranges of from_yaml and NetworkProfile.from_config;
\* meter_factor in percent
DefaultRanges == [sag_duration |-> <<3, 15>>, sag_depth |-> <<10, 30>>,
                  meter_factor |-> <<70, 150>>, latency_ms |-> <<20, 100>>]

\* the defaults, and each range in turn collapsed (upper = lower) or inverted
RangeChoices ==
    {DefaultRanges}
      \cup {[DefaultRanges EXCEPT ![f] = p] :
               f \in DOMAIN DefaultRanges, p \in {<<5, 5>>, <<5, 2>>}}

\* the parsed YAML dictionaries explored
LoadDicts ==
    [interval : {<<>>, <<0>>, <<60>>},
     preset : {<<>>, <<"high_frequency">>, <<"standard">>,
               <<"low_frequency">>, <<"other">>},
     sample_hz : {<<>>, <<0>>, <<1>>},
     ranges : RangeChoices]

\* preset_intervals.get(preset, 30)
preset_interval(p) ==
    CASE p = "high_frequency" -> 30
      [] p = "standard" -> 300
      [] p = "low_frequency" -> 900
      [] OTHER -> 30

\* preset = sampling.get('preset', 'high_frequency')
preset_of(d) == IF Given(d.preset) THEN d.preset[1] ELSE "high_frequency"

\* a loader in which a given preset wins over the explicit interval
sample_interval_preset_first(d) ==
    IF Given(d.preset) THEN preset_interval(preset_of(d))
    ELSE IF Given(d.interval) THEN d.interval[1]
    ELSE preset_interval(preset_of(d))

\* from_yaml: sample_interval, after both if statements
sample_interval(d) ==
    LET first == IF ~Given(d.interval)
                 THEN <<preset_interval(preset_of(d))>> ELSE d.interval
        hz == d.sample_hz
        second == IF (Given(hz) /\ hz[1] # 0) /\ ~Given(first)
                  THEN <<1 \div hz[1]>> ELSE first
    IN second[1]

\* SimulatorConfig.from_yaml and NetworkProfile.from_config: the values are
\* copied, none is checked
from_yaml(d) ==
    [sample_interval_seconds |-> sample_interval(d),
     sag_duration_min |-> d.ranges.sag_duration[1],
     sag_duration_max |-> d.ranges.sag_duration[2],
     sag_depth_min |-> d.ranges.sag_depth[1],
     sag_depth_max |-> d.ranges.sag_depth[2],
     meter_factor_min |-> d.ranges.meter_factor[1],
     meter_factor_max |-> d.ranges.meter_factor[2],
     latency_ms_min |-> d.ranges.latency_ms[1],
     latency_ms_max |-> d.ranges.latency_ms[2]]

NotLoaded == [sample_interval_seconds |-> 0,
              sag_duration_min |-> 0, sag_duration_max |-> 0,
              sag_depth_min |-> 0, sag_depth_max |-> 0,
              meter_factor_min |-> 0, meter_factor_max |-> 0,
              latency_ms_min |-> 0, latency_ms_max |-> 0]

\* random.randint(a, b) raises ValueError when a > b
randint_raises(a, b) == a > b

LoadInit ==
    /\ cfgDict \in LoadDicts
    /\ loaded = NotLoaded
    /\ loadStage = "dict"

\* no configuration is being loaded
LoadOff ==
    /\ cfgDict = [interval |-> <<>>, preset |-> <<>>, sample_hz |-> <<>>,
                  ranges |-> DefaultRanges]
    /\ loaded = NotLoaded
    /\ loadStage = "off"

\* main: sim_config = SimulatorConfig.from_yaml(config_dict)
LoadConfig ==
    /\ loadStage = "dict"
    /\ loaded' = from_yaml(cfgDict)
    /\ loadStage' = "loaded"
    /\ UNCHANGED <<relayVars, lockVars, simVars, latVars, valVars, streamVars, reportVars,
                   shareVars, cfgDict>>

\* main: MeterSimulator(sim_config, seed); NetworkProfile.from_config(...);
\* GatewayRelay(...): random.uniform(meter_factor_min, meter_factor_max)
\* accepts any two numbers, the other values are stored
Construct ==
    /\ loadStage = "loaded"
    /\ loadStage' = "constructed"
    /\ UNCHANGED <<relayVars, lockVars, simVars, latVars, valVars, streamVars, reportVars,
                   shareVars, cfgDict,
                   loaded>>

\* stream_readings: the first generate_batch; a sag that starts calls
\* random.randint(sag_duration_min, sag_duration_max)
FirstBatch ==
    /\ loadStage = "constructed"
    /\ \E sagStarts \in BOOLEAN :
        loadStage' =
            IF sagStarts /\ randint_raises(loaded.sag_duration_min,
                                           loaded.sag_duration_max)
            THEN "crashed" ELSE "generated"
    /\ UNCHANGED <<relayVars, lockVars, simVars, latVars, valVars, streamVars, reportVars,
                   shareVars, cfgDict,
                   loaded>>

\* run_with_simulator: the first publish() that is not dropped calls
\* get_latency_ms(): random.randint(latency_ms_min, latency_ms_max)
FirstPublish ==
    /\ loadStage = "generated"
    /\ loadStage' = IF randint_raises(loaded.latency_ms_min,
                                      loaded.latency_ms_max)
                    THEN "crashed" ELSE "published"
    /\ UNCHANGED <<relayVars, lockVars, simVars, latVars, valVars, streamVars, reportVars,
                   shareVars, cfgDict,
                   loaded>>

\* ------------------------------------------------- NetworkProfile latency
\* the NetworkProfile values explored, in ms; a negative jitter_ms is accepted
\* by from_config like any other value
LatProfiles ==
    [latency_ms_min : 0..MaxLatency, latency_ms_max : 0..MaxLatency,
     jitter_ms : -1..MaxJitter]

NoLatency == [called |-> FALSE, raised |-> FALSE, base |-> 0, jitter |-> 0,
              value |-> 0]

\* a result without the floor
no_floor(x) == x

\* max(1, x)
floor_one(x) == IF x > 1 THEN x ELSE 1

LatInit ==
    /\ profile \in LatProfiles
    /\ latency = NoLatency

\* no profile is being sampled
LatOff ==
    /\ profile = [latency_ms_min |-> 0, latency_ms_max |-> 0, jitter_ms |-> 0]
    /\ latency = NoLatency

\* NetworkProfile.get_latency_ms(): base = randint(min, max);
\* jitter = randint(-jitter_ms, jitter_ms); return max(1, base + jitter)
GetLatency ==
    /\ latency' \in
         IF randint_raises(profile.latency_ms_min, profile.latency_ms_max)
              \/ randint_raises(-profile.jitter_ms, profile.jitter_ms)
         THEN {[NoLatency EXCEPT !.called = TRUE, !.raised = TRUE]}
         ELSE {[called |-> TRUE, raised |-> FALSE, base |-> b, jitter |-> j,
                value |-> floor_one(b + j)] :
                  b \in profile.latency_ms_min..profile.latency_ms_max,
                  j \in (-profile.jitter_ms)..profile.jitter_ms}
    /\ UNCHANGED <<relayVars, lockVars, simVars, loadVars, valVars, streamVars,
                   reportVars, shareVars, profile>>

\* ------------------------------------------------- ValidateRecordFn
\* cloud_processing/transforms.py: REQUIRED_FIELDS
REQUIRED_FIELDS ==
    {"event_ts", "meter_id", "pole_id", "voltage_v", "current_a", "power_kw"}

\* process: numeric_fields
numeric_fields ==
    {"voltage_v", "current_a", "power_kw", "reactive_kvar", "freq_hz", "seq"}

\* the records explored; a field's value is described by its kind: "absent"
\* (no such key), "none" (None), "number", "numstr" (a string float() accepts),
\* "iso" (an ISO-8601 string with offset), "isoZ" (the same ending in 'Z'),
\* "text" (any other string)
Elements ==
    [event_ts : {"absent", "none", "number", "iso", "isoZ", "text"},
     meter_id : {"absent", "text"},
     pole_id : {"absent", "text"},
     voltage_v : {"absent", "none", "number", "numstr", "text"},
     current_a : {"absent", "number"},
     power_kw : {"absent", "number"},
     seq : {"absent", "number", "text"}]

\* field in element
present(e, f) == f \in DOMAIN e /\ e[f] # "absent"

\* isinstance(event_ts, str)
is_str(k) == k \in {"numstr", "iso", "isoZ", "text"}

\* if event_ts.endswith('Z'): event_ts = event_ts[:-1] + '+00:00'
replace_z(k) == IF k = "isoZ" THEN "iso" ELSE k

\* datetime.fromisoformat(event_ts) returns instead of raising ValueError
fromisoformat_ok(k) == k = "iso"

\* float(element[field]) returns instead of raising ValueError or TypeError
float_ok(k) == k \in {"number", "numstr"}

\* ValidateRecordFn.process(element): the sequence of what it yields
process(e) ==
    IF \E f \in REQUIRED_FIELDS : ~present(e, f)
    THEN <<[status |-> "error", error_type |-> "validation_error"]>>
    ELSE IF is_str(e.event_ts) /\ ~fromisoformat_ok(replace_z(e.event_ts))
    THEN <<[status |-> "error", error_type |-> "timestamp_error"]>>
    ELSE IF \E f \in numeric_fields :
               present(e, f) /\ e[f] # "none" /\ ~float_ok(e[f])
    THEN <<[status |-> "error", error_type |-> "type_error"]>>
    ELSE <<[status |-> "success", error_type |-> "none"]>>

NotProcessed == [done |-> FALSE, out |-> <<>>]

ValInit ==
    /\ element \in Elements
    /\ results = NotProcessed

\* no record is being validated
ValOff ==
    /\ element = [event_ts |-> "absent", meter_id |-> "absent",
                  pole_id |-> "absent", voltage_v |-> "absent",
                  current_a |-> "absent", power_kw |-> "absent",
                  seq |-> "absent"]
    /\ results = NotProcessed

\* results = list(fn.process(element))
Process ==
    /\ ~results.done
    /\ results' = [done |-> TRUE, out |-> process(element)]
    /\ UNCHANGED <<relayVars, lockVars, simVars, loadVars, latVars, streamVars,
                   reportVars, shareVars, element>>
\* ------------------------------------------------- stream_readings
\* the generator is not in use
NoStream == [pc |-> "off", duration_seconds |-> 0, interval |-> 0,
             start_time |-> 0, cycle_start |-> 0, left |-> 0,
             sleep_time |-> 0, sleep_from |-> 0]

StreamOff == stream = NoStream

\* simulator.stream_readings(duration_seconds) is called; the generator's body
\* has not started
StreamInit ==
    \E d \in {0, DurationLimit}, i \in {Interval, Interval + 1} :
        stream = [NoStream EXCEPT !.pc = "new", !.duration_seconds = d,
                                  !.interval = i]

\* a duration check that lets the cycle starting exactly at the limit run
duration_reached_late(s) ==
    s.duration_seconds > 0 /\ now - s.start_time > s.duration_seconds

\* if duration_seconds > 0: elapsed = cycle_start - start_time;
\* if elapsed >= duration_seconds: break    (cycle_start is the current time)
duration_reached(s) ==
    s.duration_seconds > 0 /\ now - s.start_time >= s.duration_seconds

\* max(0, interval - cycle_duration)
sleep_time(interval, cycle_duration) ==
    IF interval - cycle_duration > 0 THEN interval - cycle_duration ELSE 0

\* what a step of the generator or of its consumer leaves alone
StreamFrame ==
    UNCHANGED <<relayVars, lockVars, simVars, loadVars, latVars, valVars,
                reportVars, shareVars>>

\* the consumer asks for the first reading: interval = ...;
\* start_time = time.time()
StreamStart ==
    /\ stream.pc = "new"
    /\ stream' = [stream EXCEPT !.pc = "cycle", !.start_time = now]
    /\ StreamFrame

\* while True: cycle_start = time.time(); the duration limit is reached: break
CycleEnds ==
    /\ stream.pc = "cycle"
    /\ duration_reached(stream)
    /\ stream' = [stream EXCEPT !.pc = "ended", !.cycle_start = now]
    /\ StreamFrame

\* while True: cycle_start = time.time(); readings = self.generate_batch(...)
CycleBatch ==
    /\ stream.pc = "cycle"
    /\ ~duration_reached(stream)
    /\ stream' = [stream EXCEPT !.pc = "yield", !.cycle_start = now,
                                !.left = NumMeters]
    /\ StreamFrame

\* for reading in readings: yield reading; the consumer takes it
StreamYield ==
    /\ stream.pc = "yield"
    /\ stream.left > 0
    /\ stream' = [stream EXCEPT !.left = @ - 1]
    /\ StreamFrame

\* cycle_duration = time.time() - cycle_start;
\* sleep_time = max(0, interval - cycle_duration);
\* if sleep_time > 0: time.sleep(sleep_time)
CycleSleep ==
    /\ stream.pc = "yield"
    /\ stream.left = 0
    /\ LET st == sleep_time(stream.interval, now - stream.cycle_start) IN
        stream' = [stream EXCEPT !.sleep_time = st, !.sleep_from = now,
                                 !.pc = IF st > 0 THEN "sleep" ELSE "cycle"]
    /\ StreamFrame

\* time.sleep(sleep_time) returns
SleepReturns ==
    /\ stream.pc = "sleep"
    /\ now >= stream.sleep_from + stream.sleep_time
    /\ stream' = [stream EXCEPT !.pc = "cycle"]
    /\ StreamFrame

\* the time by which every stream with a duration limit has ended: its last
\* cycle starts before the limit and its sleep ends within the longest interval
StreamHorizon == DurationLimit + Interval + 1

\* time passes while the generator or its consumer runs or sleeps; the clock
\* is read from the moment the generator's body starts
StreamTick ==
    /\ stream.pc \notin {"off", "new", "ended"}
    /\ now < StreamHorizon
    /\ now' = now + 1
    /\ UNCHANGED <<simVars, pureVars, lockVars, cfgVars, genVars, callVars,
                   frameVars, sigVars, dataVars, ghostVars, pc>>
\* ------------------------------------------------- reported voltage
\* (sag_threshold, swell_threshold) in volts: the defaults, a low-voltage
\* feeder, and a swell threshold below the sag threshold (from_yaml compares
\* nothing)
ThresholdPairs == {<<220, 260>>, <<30, 40>>, <<220, 215>>}

\* computed voltages in mV: within 12 mV of a threshold, finer than the two
\* decimals the reading keeps
ComputedVoltages(th) ==
    {th[i] * 1000 + d : i \in 1..2, d \in -12..12}

\* round(voltage_v, 2), in hundredths of a volt, of a voltage in mV; a value
\* halfway between two hundredths goes to either, as its binary representation
\* decides
round2(mv) ==
    LET lo == mv \div 10
        r == mv % 10 IN
    IF r < 5 THEN {lo} ELSE IF r > 5 THEN {lo + 1} ELSE {lo, lo + 1}

NoReport == [done |-> FALSE, sag_threshold |-> 0, swell_threshold |-> 0,
             mv |-> 0, voltage_v |-> 0, quality_flags |-> <<>>]

ReportOff == report = NoReport

\* generate_reading has computed voltage_v = nominal + noise + sag adjustment
ReportInit ==
    \E th \in ThresholdPairs : \E v \in ComputedVoltages(th) :
        report = [NoReport EXCEPT !.sag_threshold = th[1],
                                  !.swell_threshold = th[2], !.mv = v]

\* generate_reading: quality_flags from the computed voltage, then
\* "voltage_v": round(voltage_v, 2) in the returned dictionary
ReportReading ==
    /\ ~report.done
    /\ \E cv \in round2(report.mv) :
        report' = [report EXCEPT
                      !.done = TRUE,
                      !.voltage_v = cv,
                      !.quality_flags =
                          flags_of(report.mv, report.sag_threshold * 1000,
                                   report.swell_threshold * 1000)]
    /\ UNCHANGED <<relayVars, lockVars, simVars, loadVars, latVars, valVars,
                   streamVars, shareVars>>

\* ------------------------------------------------- shared random source
\* no relay consumes the seeded run
NoShare == [drop_prob |-> 0, relayed |-> 0]

ShareOff == share = NoShare

\* main: the seeded simulator is run twice, first with --dry-run, then through
\* a GatewayRelay whose profile has the given drop_prob (in percent)
ShareInit ==
    \E p \in {0, 50, 100} : share = [NoShare EXCEPT !.drop_prob = p]

\* number of values publish() takes from the random module for a reading that
\* is not dropped: should_drop, two randint of get_latency_ms, should_reorder
DrawsPerForwarded == 4

\* stream_readings hands the next batch out only when the consumer has taken
\* every reading of the previous one
SharedBatchStart ==
    /\ runNo = 2 => share.relayed = Len(log)
    /\ BatchStart

\* run_with_simulator: self.publish(reading) for the next reading of the
\* batch; NetworkProfile draws from the module-level random source, the one
\* MeterSimulator seeded and draws from
RelayPublishDraws ==
    /\ runNo = 2
    /\ cursor = 0
    /\ share.relayed < Len(log)
    /\ LET r == Pick(RandomDraws, rng) IN
        rng' = IF r < share.drop_prob THEN rng_next(rng)
               ELSE rng_after(rng, DrawsPerForwarded)
    /\ share' = [share EXCEPT !.relayed = @ + 1]
    /\ UNCHANGED <<relayVars, lockVars, simCfg, meters, lastForceSag, cursor,
                   batches, reading, sagTrack, seed, runNo, log, firstLog,
                   loadVars, latVars, valVars, streamVars, reportVars>>

PureOff ==
    LoadOff /\ LatOff /\ ValOff /\ StreamOff /\ ReportOff /\ ShareOff

\* ------------------------------------------------------------ specification
Init == RelayInit /\ LockOff /\ SimOff /\ PureOff

Next ==
    \/ Tick
    \/ CallPublish
    \/ CallPublishBatch
    \/ BatchNext
    \/ CallFlush
    \/ CallShutdown
    \/ PublishBegin
    \/ PublishDrop
    \/ PublishSleep
    \/ LatencyWake
    \/ PublishReorder
    \/ PublishForward
    \/ DrainBegin
    \/ DrainPop
    \/ DrainPublish
    \/ DrainDone
    \/ FlushPop
    \/ FlushPublish
    \/ FlushDone
    \/ ShutdownSet
    \/ ShutdownSummary
    \/ GenBatch
    \/ DurationReached
    \/ Yield
    \/ BatchDone
    \/ PaceWake
    \/ SignalArrives
    \/ SignalHandlerEnd
    \/ CallbackOk
    \/ CallbackFail

Spec == Init /\ [][Next]_vars

InitStats == RelayOff /\ LockInit /\ SimOff /\ PureOff

NextStats ==
    \/ \E t \in Threads : StatsCall(t)
    \/ SummaryCall
    \/ \E t \in Threads : Acquire(t)
    \/ \E t \in Threads : Load(t)
    \/ \E t \in Threads : Store(t)
    \/ SummaryRead
    \/ SummaryReturn
    \/ \E t \in Threads : Release(t)

SpecStats == InitStats /\ [][NextStats]_vars


InitSim == RelayOff /\ LockOff /\ SimInit /\ PureOff

NextSim ==
    \/ BatchStart
    \/ GenerateReading
    \/ SimTick

SpecSim == InitSim /\ [][NextSim]_vars

InitSeed == RelayOff /\ LockOff /\ SeedInit /\ PureOff

NextSeed ==
    \/ BatchStart
    \/ SeededReading
    \/ PacingSleep
    \/ Rerun

SpecSeed == InitSeed /\ [][NextSeed]_vars

InitLoad == RelayOff /\ LockOff /\ SimOff /\ StreamOff
      /\ ReportOff /\ ShareOff
      /\ LoadInit /\ LatOff /\ ValOff

NextLoad ==
    \/ LoadConfig
    \/ Construct
    \/ FirstBatch
    \/ FirstPublish

SpecLoad == InitLoad /\ [][NextLoad]_vars

InitLatency == RelayOff /\ LockOff /\ SimOff /\ StreamOff
      /\ ReportOff /\ ShareOff
      /\ LoadOff /\ LatInit /\ ValOff

NextLatency == GetLatency

SpecLatency == InitLatency /\ [][NextLatency]_vars

InitValidate == RelayOff /\ LockOff /\ SimOff /\ StreamOff
      /\ ReportOff /\ ShareOff
      /\ LoadOff /\ LatOff /\ ValInit

NextValidate == Process

SpecValidate == InitValidate /\ [][NextValidate]_vars

InitStream == RelayOff /\ LockOff /\ SimOff /\ LoadOff /\ LatOff /\ ValOff
                /\ ReportOff /\ ShareOff /\ StreamInit

NextStream ==
    \/ StreamStart
    \/ CycleEnds
    \/ CycleBatch
    \/ StreamYield
    \/ CycleSleep
    \/ SleepReturns
    \/ StreamTick

\* the consumer keeps asking for readings and time keeps passing
SpecStream ==
    /\ InitStream /\ [][NextStream]_vars
    /\ WF_vars(StreamStart \/ CycleEnds \/ CycleBatch \/ StreamYield
                  \/ CycleSleep \/ SleepReturns)
    /\ WF_vars(StreamTick)

InitReport == RelayOff /\ LockOff /\ SimOff /\ LoadOff /\ LatOff /\ ValOff
                /\ StreamOff /\ ShareOff /\ ReportInit

NextReport == ReportReading

SpecReport == InitReport /\ [][NextReport]_vars

InitShare == RelayOff /\ LockOff /\ SeedInit /\ LoadOff /\ LatOff /\ ValOff
               /\ StreamOff /\ ReportOff /\ ShareInit

NextShare ==
    \/ SharedBatchStart
    \/ SeededReading
    \/ Rerun
    \/ RelayPublishDraws

SpecShare == InitShare /\ [][NextShare]_vars

\* ------------------------------------------------------------ relay claims
HandedIds == Range(sent)

\* a publish() call returns in this step (from the drop branch or after the drain)
PublishReturns ==
    /\ pc \in {"p_drop", "d_loop"}
    /\ pc' \in {"idle", "b_next", "r_yield"}

\* a flush() call returns in this step
FlushReturns == pc = "f_loop" /\ pc' \in {"idle", "sd_summary"}

\* C1: once flush() or shutdown() has returned after a sequence of complete
\* publish()/publish_batch() calls, the reorder buffer is empty and the number
\* of readings handed to the sink equals messages_received - messages_dropped.
C1_FlushAccountsForAll ==
    ((mode = "api" /\ pc = "idle" /\ op \in {"flush", "shutdown"})
        \/ (mode = "run" /\ pc = "exited" /\ ~signalled))
    => (buffer = <<>> /\ Len(sent) = stats.received - stats.dropped)

\* flush() returned before any entry could be due, after one reading was
\* dropped and another one was queued: the flush forwarded an entry that was
\* not yet due
C1_Witness ==
    /\ mode = "api" /\ pc = "idle" /\ op = "flush"
    /\ now < ReorderDelay
    /\ stats.dropped >= 1
    /\ stats.reordered >= 1
    /\ Len(sent) = stats.received - stats.dropped

\* C2: when the stop signal arrives at any point of run_with_simulator, every
\* reading generated before it is, by process exit, either counted as dropped
\* or handed to the sink.
C2_NoReadingLostOnSignal ==
    (pc = "exited" /\ signalled)
    => \A i \in 1..generated : i \in droppedIds \/ i \in HandedIds

\* C3: every publish() call, on whichever branch, has drained the buffer when
\* it returns: no entry that was due when the call started is still buffered.
C3_DrainOnEveryBranch ==
    [][PublishReturns =>
        \A i \in 1..Len(buffer') : ~Due(buffer'[i], callStart)]_vars

\* C4: with reorder_prob = 1.0 and drop_prob = 0.0 a drain pass forwards an
\* entry enqueued at t only at or after t + 2 s, and when a publish() call made
\* at or after t + 2 s, or any flush() call, returns the entry has left the
\* buffer.
C4_ReleaseAfterDelay ==
    [][(dropProb = 0 /\ reorderProb = 100) =>
        /\ (pc = "d_pub" /\ sent' # sent) => now >= held.t + ReorderDelay
        /\ PublishReturns =>
             \A i \in 1..Len(buffer') : callStart < buffer'[i].t + ReorderDelay
        /\ FlushReturns => buffer' = <<>>]_vars

\* a drain pass has popped an entry exactly 2 s after it was enqueued while a
\* younger entry stays in the buffer
C4_Witness ==
    /\ dropProb = 0 /\ reorderProb = 100
    /\ pc = "d_pub"
    /\ held.m # 0
    /\ drainNow = held.t + ReorderDelay
    /\ buffer # <<>>

\* C5: a publish() call whose drop draw succeeds returns False and increments
\* messages_dropped by exactly 1; the reading is never in the reorder buffer
\* and never handed to the sink; with drop_prob = 1.0 the sink is never called.
C5_DroppedNeverForwarded ==
    /\ [](/\ droppedIds \cap (HandedIds \cup BufferIds \cup {held.m}) = {}
          /\ stats.dropped = Cardinality(droppedIds)
          /\ (dropProb = 100 => sent = <<>> /\ buffer = <<>>))
    /\ [][droppedIds' # droppedIds =>
            /\ ret' = "False"
            /\ stats'.dropped = stats.dropped + 1
            /\ buffer' = buffer
            /\ sent' = sent]_vars

\* with drop_prob = 1.0 two readings were dropped and a flush() has returned
C5_Witness ==
    /\ dropProb = 100
    /\ stats.dropped >= 2
    /\ mode = "api" /\ pc = "idle" /\ op = "flush"

C8_StopFlushSnapshotOrder ==
    /\ [](/\ lastSummary.emitted => (lastSummary.buffered = 0 /\ shutdownFlag)
          /\ pc = "h_exit" =>
                (lastSummary.emitted /\ lastSummary.by = "handler"
                    /\ buffer = <<>>)
          /\ (signalled /\ pc = "exited") =>
                (lastSummary.emitted /\ buffer = <<>>))
    /\ [][signalled =>
            /\ stats'.received = stats.received
            /\ ~(pc = "r_pace" /\ pc' = "r_cycle")]_vars

\* the signal arrived during the pacing sleep with a reading in the reorder
\* buffer; the handler has flushed it and emitted the snapshot
C8_Witness ==
    /\ pc = "h_exit"
    /\ saved.pc = "r_pace"
    /\ stats.reordered >= 1
    /\ lastSummary.handed = stats.received - stats.dropped
    /\ lastSummary.handed >= 1
    /\ now < ReorderDelay

\* ------------------------------------------------------------ statistics claims
\* record_c calls of thread t that have not stored yet
Unstored(c) ==
    Cardinality({t \in Threads :
        tcnt[t] = c /\ tpc[t] \in {"acquire", "load", "store"}})

SnapAsStats(q) ==
    [received |-> q[1], published |-> q[2], dropped |-> q[3],
     reordered |-> q[4], errors |-> q[5]]

\* C6: with the confirmation path interleaving arbitrarily with the main loop,
\* all counter updates and snapshot reads are serialized by the lock: at most
\* one thread is inside a critical section, no increment is lost (each counter equals the
\* number of record_* calls made for it minus those still to store) and every
\* snapshot get_summary returns is a value the counter set had at one moment.
C6_CountersSerialized ==
    /\ Cardinality({t \in Threads :
            tpc[t] \in {"load", "store", "read", "release"}}) <= 1
    /\ \A c \in Counters : stats[c] = made[c] - Unstored(c)
    /\ lastSnap # NoSnap => SnapAsStats(lastSnap) \in seen

\* get_summary has read a snapshot under the lock and is about to release it
\* while the confirmation thread waits for the lock with an increment of
\* messages_published that the snapshot does not contain
C6_Witness ==
    /\ lastSnap # NoSnap
    /\ tpc["main"] = "release"
    /\ tpc["callback"] = "acquire" /\ tcnt["callback"] = "published"
    /\ stats.published >= 1
    /\ made["published"] = stats.published + 1
    /\ SnapAsStats(lastSnap) = stats

\* the messages of the last publish_batch() call
BatchIds == (batchFirst + 1)..generated

\* C13: publish_batch(messages) hands the messages to publish() one at a time
\* in list order and returns the number of messages that were not dropped:
\* len(messages) minus the drops recorded during the call.
C13_BatchReturnsNotDropped ==
    /\ (op = "publish_batch" /\ msg # 0) =>
          /\ msg = generated - Len(queue)
          /\ \A i \in 1..Len(queue) : queue[i] = msg + i
    /\ (op = "publish_batch" /\ pc = "b_next") =>
          batchCount = Cardinality({m \in BatchIds :
                           m <= generated - Len(queue) /\ m \notin droppedIds})
    /\ (op = "publish_batch" /\ pc = "idle" /\ batchRet >= 0) =>
          batchRet = Cardinality(BatchIds)
                       - Cardinality(BatchIds \cap droppedIds)

\* publish_batch returned a count larger than the number of its messages handed
\* to the sink: one was dropped, one is still in the reorder buffer
C13_Witness ==
    /\ op = "publish_batch" /\ pc = "idle"
    /\ batchRet >= 1
    /\ BatchIds \cap droppedIds # {}
    /\ batchRet > Cardinality(BatchIds \cap HandedIds)
    /\ BatchIds \cap BufferIds # {}

\* the step sequences of a publish() call, complete or in progress
PublishTraces ==
    {<<>>, <<"received">>, <<"received", "dropped">>, <<"received", "sleep">>,
     <<"received", "sleep", "woke">>,
     <<"received", "sleep", "woke", "queued">>,
     <<"received", "sleep", "woke", "forwarded">>}

\* number of places a reading is held in: the sink's input, the buffer and the
\* entry popped from the buffer
Copies(m) ==
    Cardinality({i \in 1..Len(sent) : sent[i] = m})
      + Cardinality({i \in 1..Len(buffer) : buffer[i].m = m})
      + (IF held.m = m THEN 1 ELSE 0)

\* C20: every publish() call records 'received' first and ends in exactly one
\* of dropped, queued or handed to the sink; the drop decision comes first, a
\* dropped reading has no latency sleep and no reorder draw, and a non-dropped
\* reading's latency sleep completes before its reorder draw.
C20_PublishStepOrder ==
    /\ trace.steps \in PublishTraces
    /\ trace.m # 0 => stats.received = trace.m
    /\ (trace.m # 0 /\ Len(trace.steps) \in 1..3
           /\ trace.steps[Len(trace.steps)] # "dropped") =>
          /\ trace.m \notin droppedIds
          /\ Copies(trace.m) = 0
    /\ (trace.m # 0 /\ trace.steps = <<"received", "dropped">>) =>
          /\ trace.m \in droppedIds
          /\ Copies(trace.m) = 0
          /\ ret = "False"
    /\ (trace.m # 0 /\ Len(trace.steps) = 4) =>
          /\ trace.m \notin droppedIds
          /\ Copies(trace.m) <= 1
          /\ trace.steps[4] = "forwarded" => trace.m \in HandedIds
          /\ (trace.steps[4] = "queued" /\ pc = "d_begin")
                => trace.m \in BufferIds
          /\ (msg = 0 /\ ~signalled) => (ret = "True" /\ Copies(trace.m) = 1)

\* a publish() call returned after queueing its reading, the one before it
\* having been dropped
C20_Witness ==
    /\ trace.steps = <<"received", "sleep", "woke", "queued">>
    /\ msg = 0 /\ ret = "True"
    /\ trace.m \in BufferIds
    /\ trace.m - 1 \in droppedIds

\* ------------------------------------------------------------ simulator claims
\* C9: when a sag starts with sampled duration D, in_sag is true after exactly
\* D consecutive ticks, the starting tick included, and false after the next
\* one, and exactly those D ticks carry a negative voltage offset.
C9_SagLastsSampledDuration ==
    \A m \in 1..NumMeters :
        /\ (sagTrack[m].started /\ meters[m].in_sag)
              => sagTrack[m].ticks <= sagTrack[m].D
        /\ sagTrack[m].ended
              => (sagTrack[m].ticks = sagTrack[m].D
                    /\ sagTrack[m].negative = sagTrack[m].D)

\* C10: for every meter, after construction and after every tick, in any
\* configuration the loader accepts: sag_remaining_seconds > 0 iff in_sag, and
\* sag_depth = 0 iff not in_sag.
C10_SagStateInvariant ==
    \A m \in 1..NumMeters :
        /\ (meters[m].sag_remaining_seconds > 0) <=> meters[m].in_sag
        /\ (meters[m].sag_depth = 0) <=> ~meters[m].in_sag

\* C11: two independent runs of the simulator with the same seed and the same
\* configuration produce the same sequence of readings: the k-th reading of the
\* second run equals the k-th reading of the first, field by field.
C11_SameSeedSameReadings ==
    runNo = 2 =>
        \A k \in 1..Len(log) : k <= Len(firstLog) => log[k] = firstLog[k]

\* the largest voltage noise explored
max_noise == CHOOSE n \in NoiseDraws : \A k \in NoiseDraws : k <= n

C14_NoSagWithoutTrigger ==
    (simCfg.sag_probability = 0 /\ simCfg.force_sag_interval = 0) =>
        /\ \A m \in 1..NumMeters : ~meters[m].in_sag
        /\ reading.meter # 0 =>
              /\ reading.sag_adjustment = 0
              /\ reading.voltage_v
                    = simCfg.voltage_nominal + reading.voltage_noise
              /\ (reading.voltage_v >= simCfg.sag_threshold
                    /\ reading.voltage_v <= simCfg.swell_threshold)
                    => reading.quality_flags = <<>>

\* the second batch of a configuration without triggers produced an unflagged
\* reading
C14_Witness ==
    /\ simCfg.sag_probability = 0 /\ simCfg.force_sag_interval = 0
    /\ batches >= 2
    /\ reading.meter # 0
    /\ reading.quality_flags = <<>>

\* C15: each generate_batch call returns one reading per meter in meter order
\* and raises every meter's seq by exactly 1: after k calls every seq is k and
\* the k-th batch's readings carry seq = k.
C15_BatchSequenceNumbers ==
    /\ \A k \in 1..Len(log) :
          /\ log[k].meter = ((k - 1) % NumMeters) + 1
          /\ log[k].seq = ((k - 1) \div NumMeters) + 1
    /\ cursor = 0 =>
          /\ Len(log) = batches * NumMeters
          /\ \A m \in 1..NumMeters : meters[m].seq = batches
    /\ cursor # 0 =>
          /\ Len(log) = (batches - 1) * NumMeters + (cursor - 1)
          /\ \A m \in 1..NumMeters :
                meters[m].seq = IF m < cursor THEN batches ELSE batches - 1

\* the second generate_batch call has returned
C15_Witness ==
    /\ cursor = 0
    /\ batches = 2
    /\ Len(log) = 2 * NumMeters

\* ------------------------------------------------- configuration claims
\* C16: from_yaml sets sample_interval_seconds to the explicit
\* sampling.sample_interval_seconds whenever one is given, whatever the preset,
\* and otherwise to the preset's interval: high_frequency 30, standard 300,
\* low_frequency 900.
C16_IntervalExplicitOverPreset ==
    loadStage \notin {"off", "dict"} =>
        /\ Given(cfgDict.interval) =>
              loaded.sample_interval_seconds = cfgDict.interval[1]
        /\ (~Given(cfgDict.interval) /\ Given(cfgDict.preset)) =>
              /\ cfgDict.preset[1] = "high_frequency"
                    => loaded.sample_interval_seconds = 30
              /\ cfgDict.preset[1] = "standard"
                    => loaded.sample_interval_seconds = 300
              /\ cfgDict.preset[1] = "low_frequency"
                    => loaded.sample_interval_seconds = 900

\* an explicit interval was loaded although a preset with another interval was
\* named
C16_Witness ==
    /\ loadStage = "loaded"
    /\ cfgDict.interval = <<60>>
    /\ cfgDict.preset = <<"standard">>
    /\ loaded.sample_interval_seconds = 60

\* a range of the dictionary whose upper bound is not above its lower bound
InvalidRange(d) == \E f \in DOMAIN d.ranges : d.ranges[f][2] <= d.ranges[f][1]

\* C17: a configuration with an invalid range (upper bound <= lower bound) is
\* rejected during loading or construction: startup never gets past them and
\* no reading is generated or published.
C17_InvalidRangeRejected ==
    InvalidRange(cfgDict) => loadStage \in {"off", "dict", "loaded", "rejected"}

\* C18: for latency_ms_min <= latency_ms_max and jitter_ms >= 0,
\* get_latency_ms() returns max(1, base + jitter), which is at least 1 and at
\* most latency_ms_max + jitter_ms.
C18_LatencyBounds ==
    (latency.called /\ ~latency.raised) =>
        /\ latency.value = floor_one(latency.base + latency.jitter)
        /\ latency.value >= 1
        /\ latency.value <= profile.latency_ms_max + profile.jitter_ms

\* C18, amended: the result is max(1, base + jitter), at least 1 and at most
\* max(1, latency_ms_max + jitter_ms); no draw is made for a profile with
\* latency_ms_min > latency_ms_max or jitter_ms < 0.
C18_LatencyBoundsFloored ==
    latency.called =>
        /\ latency.raised <=>
              (profile.latency_ms_min > profile.latency_ms_max
                 \/ profile.jitter_ms < 0)
        /\ ~latency.raised =>
              /\ latency.base \in
                    profile.latency_ms_min..profile.latency_ms_max
              /\ latency.jitter \in (-profile.jitter_ms)..profile.jitter_ms
              /\ latency.value
                    = (IF latency.base + latency.jitter > 1
                       THEN latency.base + latency.jitter ELSE 1)
              /\ latency.value >= 1
              /\ latency.value <= profile.latency_ms_max + profile.jitter_ms
                    \/ latency.value = 1

\* the floor lifted the result above latency_ms_max + jitter_ms
C18_Witness ==
    /\ latency.called /\ ~latency.raised
    /\ profile.latency_ms_min <= profile.latency_ms_max
    /\ profile.jitter_ms >= 0
    /\ latency.value = 1
    /\ profile.latency_ms_max + profile.jitter_ms < 1

\* C19: process yields exactly one result per record: an error whenever one of
\* the six required fields is absent, and success only when all six are
\* present, event_ts parses as ISO-8601 (a trailing 'Z' accepted) and every
\* present numeric field converts to a number.
C19_ValidateRecord ==
    results.done =>
        /\ Len(results.out) = 1
        /\ (\E f \in REQUIRED_FIELDS : element[f] = "absent")
              => results.out[1].status = "error"
        /\ results.out[1].status = "success" =>
              /\ \A f \in REQUIRED_FIELDS : element[f] # "absent"
              /\ element.event_ts \in {"iso", "isoZ"}
              /\ \A f \in numeric_fields \cap DOMAIN element :
                    element[f] # "absent" => element[f] \in {"number", "numstr"}

\* the entries of b are in non-decreasing order of enqueue time, and in the
\* order in which their readings were received
ReleaseOrdered(b) ==
    \A i, j \in 1..Len(b) : i < j => (b[i].t <= b[j].t /\ b[i].m < b[j].m)

\* C21: the reorder buffer is always in non-decreasing order of release time,
\* entries with equal release time in enqueue order; drain passes and flush
\* take entries from the front only and hand them to the sink in that order,
\* and a drain pass takes only due entries and ends at the first entry that is
\* not yet due.
C21_BufferReleaseOrder ==
    /\ [](/\ ReleaseOrdered(buffer)
          /\ held.m # 0 => \A i \in 1..Len(buffer) : held.m < buffer[i].m)
    /\ [][/\ Len(buffer') < Len(buffer) =>
                /\ pc \in {"d_loop", "f_loop"}
                /\ buffer' = Tail(buffer)
                /\ held'.m = Head(buffer).m
          /\ Len(buffer') > Len(buffer) =>
                /\ pc = "p_reorder"
                /\ buffer' = Append(buffer, [t |-> now, m |-> msg])
          /\ (pc \in {"d_pub", "f_pub"} /\ sent' # sent) =>
                sent' = Append(sent, held.m)
          /\ (pc = "d_loop" /\ pc' = "d_pub") => Due(Head(buffer), drainNow)
          /\ (pc = "d_loop" /\ PublishReturns) =>
                /\ buffer' = buffer
                /\ buffer # <<>> => ~Due(Head(buffer), drainNow)]_vars

\* a drain pass has forwarded the older of two delayed readings and stops at
\* the younger one, which is not yet due
C21_Witness ==
    /\ pc = "d_loop"
    /\ stats.reordered = 2
    /\ Len(sent) = 1
    /\ buffer # <<>>
    /\ ~Due(Head(buffer), drainNow)
    /\ sent[1] < Head(buffer).m

\* a delivery confirmation is recorded in this step
ConfirmationRecorded ==
    stats'.published # stats.published \/ stats'.errors # stats.errors

\* C22: the delivery-confirmation path changes only messages_published or
\* publish_errors: the reorder buffer, the shutdown flag, the received, dropped
\* and reordered counters and the main loop's position stay as they are; the
\* buffer changes only in publish(), the drain pass and flush().
C22_CallbackFrame ==
    [][/\ ConfirmationRecorded =>
            /\ stats'.published + stats'.errors
                  = stats.published + stats.errors + 1
            /\ stats'.received = stats.received
            /\ stats'.dropped = stats.dropped
            /\ stats'.reordered = stats.reordered
            /\ UNCHANGED <<buffer, shutdownFlag, sent, pc, msg, held, queue,
                           shutdownBy, signalled>>
       /\ buffer' # buffer =>
            /\ pc \in {"p_reorder", "d_loop", "f_loop"}
            /\ ~ConfirmationRecorded]_vars

\* a failed confirmation was recorded while a delayed reading waits in the
\* buffer and a drain pass is under way
C22_Witness ==
    /\ stats.errors >= 1
    /\ buffer # <<>>
    /\ pc = "d_loop"
    /\ ~shutdownFlag

\* the forced-sag interval has elapsed since the last forced sag, or since
\* construction
IntervalElapsed ==
    /\ simCfg.force_sag_interval > 0
    /\ now - lastForceSag >= simCfg.force_sag_interval

\* C23: with force_sag_interval > 0 a meter that is not in a sag and is
\* evaluated when the interval has elapsed enters a sag on that tick and the
\* shared timer is reset to the current time; the timer is reset by nothing
\* else, so a forced start needs a full interval since the previous one, and a
\* meter already in a sag leaves the timer alone.
C23_ForcedSag ==
    [][\A m \in 1..NumMeters :
          (cursor = m /\ meters'[m].seq # meters[m].seq) =>
              /\ (~meters[m].in_sag /\ IntervalElapsed) =>
                    /\ meters'[m].in_sag
                    /\ lastForceSag' = now
                    /\ reading'.sag_adjustment = -meters'[m].sag_depth
              /\ meters[m].in_sag => lastForceSag' = lastForceSag
              /\ lastForceSag' # lastForceSag =>
                    /\ ~meters[m].in_sag /\ meters'[m].in_sag
                    /\ lastForceSag' >= lastForceSag + simCfg.force_sag_interval
              /\ \A k \in 1..NumMeters :
                    k # m => meters'[k] = meters[k]]_vars

\* in one batch the first meter was force-started and the second, evaluated at
\* the same time, was not: the first had reset the shared timer
C23_Witness ==
    /\ simCfg.force_sag_interval > 0 /\ simCfg.sag_probability = 0
    /\ cursor = 0
    /\ lastForceSag = now
    /\ meters[1].in_sag
    /\ ~meters[2].in_sag
    /\ meters[2].seq = meters[1].seq
    /\ sagTrack[1].ticks = 1

C25_SampleHzHonoured ==
    (loadStage \notin {"off", "dict"}
        /\ Given(cfgDict.sample_hz) /\ cfgDict.sample_hz # <<0>>
        /\ ~Given(cfgDict.interval) /\ ~Given(cfgDict.preset))
    => loaded.sample_interval_seconds = 1 \div cfgDict.sample_hz[1]

\* ------------------------------------------------- reported-voltage claims
\* C26: for every reading, quality_flags holds at most one flag: "voltage_sag"
\* exactly when the voltage_v the reading reports is below the sag threshold,
\* "voltage_swell" exactly when it is above the swell threshold and not below
\* the sag threshold, and nothing otherwise.
C26_FlagsMatchReportedVoltage ==
    report.done =>
        LET flags == Range(report.quality_flags)
            below == report.voltage_v < report.sag_threshold * 100
            above == report.voltage_v > report.swell_threshold * 100 IN
        /\ Len(report.quality_flags) <= 1
        /\ ("voltage_sag" \in flags) <=> below
        /\ ("voltage_swell" \in flags) <=> (above /\ ~below)
        /\ flags \subseteq {"voltage_sag", "voltage_swell"}

\* number of times the reading m has been handed to _do_publish
TimesHanded(m) == Cardinality({i \in 1..Len(sent) : sent[i] = m})

\* C27: no reading is handed to the sink more than once, whatever the
\* interleaving of publish() calls, drain passes, flush() and repeated
\* shutdown() calls (the signal handler's and the finally block's): a reading
\* that has been handed over is in the buffer no more, in no popped entry and
\* was not dropped.
C27_HandedAtMostOnce ==
    \A m \in 1..generated :
        /\ TimesHanded(m) <= 1
        /\ TimesHanded(m) = 1 =>
              /\ m \notin BufferIds
              /\ held.m # m
              /\ saved.held.m # m
              /\ m \notin droppedIds

\* the signal handler's shutdown() flushed a delayed reading, the finally
\* block's shutdown() ran after it, and both readings were handed over once
C27_Witness ==
    /\ pc = "exited"
    /\ signalled
    /\ lastSummary.by = "finally"
    /\ stats.reordered >= 1
    /\ Len(sent) = 2
    /\ now < ReorderDelay

\* no publish(), flush() or shutdown() call is running: the caller is between
\* two calls, or the process has ended
BetweenCalls == pc \in {"idle", "b_next", "r_cycle", "r_yield", "r_pace", "exited"}

\* C28: in every reachable state, confirmations interleaved arbitrarily:
\* messages_published + publish_errors <= readings handed to the sink
\* <= messages_received - messages_dropped, messages_reordered
\* <= messages_received - messages_dropped, and between publish() calls
\* messages_received = messages_dropped + readings handed to the sink + length
\* of the reorder buffer.
C28_CounterAccounting ==
    /\ stats.published + stats.errors <= Len(sent)
    /\ Len(sent) <= stats.received - stats.dropped
    /\ stats.reordered <= stats.received - stats.dropped
    /\ BetweenCalls =>
          stats.received = stats.dropped + Len(sent) + Len(buffer)

\* ------------------------------------------------- shared-source claims
\* C29: with a fixed seed the readings do not depend on the relay: the run
\* through a GatewayRelay, whatever its network profile, produces the same
\* reading values as the dry run, reading by reading.
C29_ReadingsIndependentOfRelay ==
    (runNo = 2 /\ Len(log) <= Len(firstLog)) =>
        log = SubSeq(firstLog, 1, Len(log))

\* C30: the final stats snapshot that shutdown() emits accounts for every
\* forwarded reading: when it is taken, messages_published + publish_errors
\* equals the number of readings handed to the sink.
C30_SummaryAccountsForHanded ==
    lastSummary.emitted =>
        lastSummary.counters.published + lastSummary.counters.errors
            = lastSummary.handed

====
